---------------------------- MODULE Spec2Model ----------------------------
(***************************************************************************)
(* A model of trade.py: the market-data fetcher and its 24-hour window     *)
(* aggregation, the two-source item-name resolver, the thread-pool         *)
(* enrichment pipeline, the ranking/report step and the run orchestration  *)
(* over the three persistent files (item-id cache, two carry-forward       *)
(* lists) and the two report files.                                        *)
(*                                                                         *)
(* Units: time is counted in hours.  Python values: None is the value      *)
(* None below, a str is a sequence of characters, a list is a sequence, a  *)
(* dict is a record, a file is a record [exists, content].                 *)
(***************************************************************************)
EXTENDS Integers, Sequences, FiniteSets, TLC

VARIABLES
    pc,                          \* position of the script / of the call under study
    isSat,                       \* what is_Sat() answers during this run (lines 150 and
                                 \* 160 read it twice; a run does not span midnight)
    catalog,                     \* response of the /marketable request of this run
    item_ids_file,               \* item_ids.json
    previous_day_file_revenue,   \* previous_day_top50_revenue.json
    previous_day_file_quantity,  \* previous_day_top50_quantity.json
    results_file_revenue,        \* top_items_revenue.txt
    results_file_quantity,       \* top_items_quantity.txt
    item_ids,                    \* the list handed to get_top_items
    tasks,                       \* one future per element of item_ids
    top_items,                   \* what get_top_items returned
    run,                         \* number of the current run of the script
    arg,                         \* argument of the function call under study
    ret                          \* its return value

files == <<item_ids_file, previous_day_file_revenue, previous_day_file_quantity,
           results_file_revenue, results_file_quantity>>
vars == <<pc, isSat, catalog, item_ids_file, previous_day_file_revenue,
          previous_day_file_quantity, results_file_revenue, results_file_quantity,
          item_ids, tasks, top_items, run, arg, ret>>

---------------------------------------------------------------------------
(* Bounds of the model *)

MaxLen == 3          \* longest sale history / item list drawn as an input
MaxRuns == 2         \* consecutive runs of the script
PoolExtra == 1       \* ids beyond the pool size in the pool specification

(* Program constants *)

max_workers == 15    \* ThreadPoolExecutor(max_workers=15)
Day == 24            \* timedelta(days=1), in hours
Threshold == 34000   \* item_id > 34000
TopCarry == 50       \* [:50]
TopReport == 20      \* [:20]

---------------------------------------------------------------------------
(* Python values *)

None == <<"None">>                      \* as a name: no str has the character "None"
SP == " "
Chars == {SP, "a", "b"}

Min(a, b) == IF a <= b THEN a ELSE b

SeqsUpTo(S, n) == UNION {[1..k -> S] : k \in 0..n}

\* s[:n]
Take(s, n) == SubSeq(s, 1, Min(n, Len(s)))

Range(s) == {s[i] : i \in 1..Len(s)}

NoFile == [exists |-> FALSE, content |-> <<>>]
File(c) == [exists |-> TRUE, content |-> c]

---------------------------------------------------------------------------
(* get_market_data: the filter of mannequin sales and the window loop *)

\* datetime.fromtimestamp(ts): the naive LOCAL time of a POSIX timestamp;
\* tz is the local zone's offset from UTC
FromTimestamp(ts, tz) == ts + tz

\* datetime.utcnow(): the naive UTC time
UtcNow(now) == now

\* [entry for entry in data['entries'] if not entry['onMannequin']]
MarketBoardSalesNoFilter(entries) == entries
MarketBoardSales(entries) == SelectSeq(entries, LAMBDA e : ~e.onMannequin)

\* the body of the for loop, lines 24-28, from entry i on
RECURSIVE WindowLoop(_, _, _, _, _)
WindowLoop(sales, i, one_day_ago, tz, acc) ==
    IF i > Len(sales) THEN acc
    ELSE LET entry == sales[i]
             purchase_time == FromTimestamp(entry.timestamp, tz)
         IN IF purchase_time >= one_day_ago
            THEN WindowLoop(sales, i + 1, one_day_ago, tz,
                   [daily_revenue |-> acc.daily_revenue
                                        + entry.pricePerUnit * entry.quantity,
                    total_quantity |-> acc.total_quantity + entry.quantity])
            ELSE WindowLoop(sales, i + 1, one_day_ago, tz, acc)

\* lines 15-32: the data returned for a 200 response with these entries
MarketData(entries, now, tz) ==
    LET market_board_sales == MarketBoardSales(entries)
        one_day_ago == UtcNow(now) - Day
    IN WindowLoop(market_board_sales, 1, one_day_ago, tz,
                  [daily_revenue |-> 0, total_quantity |-> 0])

\* datetime.now(): the naive LOCAL time
LocalNow(now, tz) == now + tz

\* the for loop of calculate_daily_revenue_and_quantity, lines 102-108, from
\* entry i on: it stops at the first entry older than one day
RECURSIVE ShortCircuitLoopStrict(_, _, _, _, _)
ShortCircuitLoopStrict(recent_history, i, one_day_ago, tz, acc) ==
    IF i > Len(recent_history) THEN acc
    ELSE LET entry == recent_history[i]
             entry_time == FromTimestamp(entry.timestamp, tz)
         IN IF entry_time > one_day_ago
            THEN ShortCircuitLoopStrict(recent_history, i + 1, one_day_ago, tz,
                   [daily_revenue |-> acc.daily_revenue
                                        + entry.quantity * entry.pricePerUnit,
                    total_quantity |-> acc.total_quantity + entry.quantity])
            ELSE acc
RECURSIVE ShortCircuitLoop(_, _, _, _, _)
ShortCircuitLoop(recent_history, i, one_day_ago, tz, acc) ==
    IF i > Len(recent_history) THEN acc
    ELSE LET entry == recent_history[i]
             entry_time == FromTimestamp(entry.timestamp, tz)
         IN IF entry_time >= one_day_ago
            THEN ShortCircuitLoop(recent_history, i + 1, one_day_ago, tz,
                   [daily_revenue |-> acc.daily_revenue
                                        + entry.quantity * entry.pricePerUnit,
                    total_quantity |-> acc.total_quantity + entry.quantity])
            ELSE acc

\* calculate_daily_revenue_and_quantity, lines 96-110, called at the instant now
calculate_daily_revenue_and_quantity(recent_history, now, tz) ==
    LET one_day_ago == LocalNow(now, tz) - Day
    IN ShortCircuitLoop(recent_history, 1, one_day_ago, tz,
                        [daily_revenue |-> 0, total_quantity |-> 0])

---------------------------------------------------------------------------
(* Inputs of the aggregation specification *)

Nows == {48}
TZOffsets == {-5, 0, 8}            \* local zone: UTC-5, UTC, UTC+8

\* sales 30, 24 and 2 hours old
Stamps(now) == {now - Day - 6, now - Day, now - 2}
PriceQty == {<<3, 1>>, <<2, 2>>}

EntriesAt(now) ==
    {[timestamp |-> t, pricePerUnit |-> pq[1], quantity |-> pq[2], onMannequin |-> m] :
        t \in Stamps(now), pq \in PriceQty, m \in BOOLEAN}

NoArg == [fn |-> "none"]
NoRet == [fn |-> "none"]

\* the script is not running: what the variables of a run hold meanwhile
Idle ==
    /\ isSat = FALSE
    /\ catalog = [requested |-> FALSE, raised |-> FALSE, status_code |-> 0, body |-> <<>>]
    /\ item_ids_file = NoFile
    /\ previous_day_file_revenue = NoFile
    /\ previous_day_file_quantity = NoFile
    /\ results_file_revenue = NoFile
    /\ results_file_quantity = NoFile
    /\ item_ids = <<>>
    /\ tasks = <<>>
    /\ top_items = <<>>
    /\ run = 0

RunVars == <<isSat, catalog, item_ids_file, previous_day_file_revenue,
             previous_day_file_quantity, results_file_revenue, results_file_quantity,
             item_ids, tasks, top_items, run>>

InitAgg ==
    /\ pc = "Call"
    /\ \E now \in Nows, tz \in TZOffsets :
         \E entries \in SeqsUpTo(EntriesAt(now), MaxLen) :
            \E fn \in {"get_market_data", "calculate_daily_revenue_and_quantity"} :
               arg = [fn |-> fn, entries |-> entries, now |-> now, tz |-> tz]
    /\ ret = NoRet
    /\ Idle

\* get_market_data answers a 200 response
CallGetMarketData ==
    /\ pc = "Call"
    /\ arg.fn = "get_market_data"
    /\ ret' = [fn |-> "get_market_data",
               data |-> MarketData(arg.entries, arg.now, arg.tz)]
    /\ pc' = "Returned"
    /\ UNCHANGED <<arg, RunVars>>

\* calculate_daily_revenue_and_quantity is called on a history
CallCalculate ==
    /\ pc = "Call"
    /\ arg.fn = "calculate_daily_revenue_and_quantity"
    /\ ret' = [fn |-> "calculate_daily_revenue_and_quantity",
               data |-> calculate_daily_revenue_and_quantity(arg.entries, arg.now, arg.tz)]
    /\ pc' = "Returned"
    /\ UNCHANGED <<arg, RunVars>>

NextAgg ==
    \/ CallGetMarketData
    \/ CallCalculate

SpecAgg == InitAgg /\ [][NextAgg]_vars

---------------------------------------------------------------------------
(* Claims about get_market_data *)

RECURSIVE SumOver(_, _)
SumOver(S, f) ==
    IF S = {} THEN 0
    ELSE LET x == CHOOSE y \in S : TRUE IN f[x] + SumOver(S \ {x}, f)

Returned(fn) == pc = "Returned" /\ ret.fn = fn

\* the positions of the eligible entries whose timestamp lies in [now-24h, now]
InWindowIdx(entries, now) ==
    {i \in 1..Len(entries) :
        /\ ~entries[i].onMannequin
        /\ now - Day <= entries[i].timestamp
        /\ entries[i].timestamp <= now}

\* C4: for every sequence of eligible entries, in any order, dailyRevenue is the
\* sum of pricePerUnit*quantity and totalQuantity the sum of quantity over exactly
\* the entries with timestamp in [now-24h, now]; no such entry gives {0, 0}.
C4_WindowSums ==
    (Returned("get_market_data") /\ \A i \in 1..Len(arg.entries) : ~arg.entries[i].onMannequin)
    => LET in == InWindowIdx(arg.entries, arg.now)
       IN /\ ret.data.daily_revenue
               = SumOver(in, [i \in in |-> arg.entries[i].pricePerUnit * arg.entries[i].quantity])
          /\ ret.data.total_quantity = SumOver(in, [i \in in |-> arg.entries[i].quantity])

\* the histories that differ from entries in one mannequin-flagged entry: one
\* removed, one altered, one added
RemoveAt(s, k) == SubSeq(s, 1, k - 1) \o SubSeq(s, k + 1, Len(s))
InsertAt(s, k, e) == SubSeq(s, 1, k - 1) \o <<e>> \o SubSeq(s, k, Len(s))
MannequinEntries(now) == {e \in EntriesAt(now) : e.onMannequin}
MannequinVariants(entries, now) ==
    LET mann == {k \in 1..Len(entries) : entries[k].onMannequin}
    IN {RemoveAt(entries, k) : k \in mann}
       \cup {[entries EXCEPT ![k] = e] : k \in mann, e \in MannequinEntries(now)}
       \cup {InsertAt(entries, k, e) : k \in 1..(Len(entries) + 1), e \in MannequinEntries(now)}

\* C10: mannequin-flagged entries never reach aggregation: the fetcher's
\* dailyRevenue and totalQuantity are unchanged by adding, removing or altering
\* any mannequin-flagged entry, whatever its timestamp.
C10_MannequinIgnored ==
    Returned("get_market_data")
    => \A other \in MannequinVariants(arg.entries, arg.now) :
          MarketData(other, arg.now, arg.tz) = ret.data

\* a history with a mannequin sale inside the window next to a counted sale
C10_Witness ==
    /\ Returned("get_market_data")
    /\ ret.data.total_quantity > 0
    /\ \E k \in 1..Len(arg.entries) :
          /\ arg.entries[k].onMannequin
          /\ FromTimestamp(arg.entries[k].timestamp, arg.tz) >= UtcNow(arg.now) - Day

SortedDescending(entries) ==
    \A i \in 1..Len(entries), j \in 1..Len(entries) :
        i < j => entries[i].timestamp >= entries[j].timestamp

\* the instants at which datetime.utcnow() reads the value v
UtcInstants(v, around) == {t \in (around - Day)..(around + Day) : UtcNow(t) = v}

\* C11: on every entry sequence sorted descending by timestamp, and for the
\* same value of now read by both, the short-circuiting aggregator
\* (calculate_daily_revenue_and_quantity) yields exactly the revenue and quantity
\* of the full-scan loop of get_market_data.
C11_ShortCircuitMatchesFullScan ==
    (Returned("calculate_daily_revenue_and_quantity") /\ SortedDescending(arg.entries))
    => \A t \in UtcInstants(LocalNow(arg.now, arg.tz), arg.now) :
          ret.data = WindowLoop(arg.entries, 1, UtcNow(t) - Day, arg.tz,
                                [daily_revenue |-> 0, total_quantity |-> 0])

\* a sorted history on which the short circuit is taken after counted sales,
\* one of them exactly a day old, in a zone that is not UTC
C11_Witness ==
    /\ Returned("calculate_daily_revenue_and_quantity")
    /\ SortedDescending(arg.entries)
    /\ arg.tz # 0
    /\ Len(arg.entries) = 3
    /\ arg.entries[1].timestamp = arg.now - 2
    /\ arg.entries[2].timestamp = arg.now - Day
    /\ arg.entries[3].timestamp < arg.now - Day
    /\ ret.data.total_quantity = arg.entries[1].quantity + arg.entries[2].quantity

---------------------------------------------------------------------------
(* get_item_name and its two sources *)

\* an HTTP exchange: requests.get either raises (no connection) or returns a
\* response with a status code and, for the name sources, a JSON "Name"
Raises == [raised |-> TRUE, status_code |-> 0, Name |-> None]
Answer(code, name) == [raised |-> FALSE, status_code |-> code, Name |-> name]

IsSpace(c) == c = SP

\* str.strip()
RECURSIVE LStrip(_)
LStrip(s) == IF s # <<>> /\ IsSpace(Head(s)) THEN LStrip(Tail(s)) ELSE s
RECURSIVE RStrip(_)
RStrip(s) ==
    IF s # <<>> /\ IsSpace(s[Len(s)]) THEN RStrip(SubSeq(s, 1, Len(s) - 1)) ELSE s
Strip(s) == RStrip(LStrip(s))

\* get_item_name_from_cafemaker / get_item_name_from_xivapi on a response
get_item_name_from_cafemaker(response) ==
    IF response.status_code = 200 THEN response.Name ELSE None
get_item_name_from_xivapi(response) ==
    IF response.status_code = 200 THEN response.Name ELSE None

\* line 59: name is None or name.strip() == ""
NeedsSecondaryAlways(name) == TRUE
NeedsSecondary(name) == name = None \/ Strip(name) = <<>>

\* get_item_name given what each source would answer: the name returned, or the
\* exception of the request that raised, and the requests issued
get_item_name(cafemaker, xivapi) ==
    IF cafemaker.raised
    THEN [raised |-> TRUE, name |-> None, calls |-> <<"cafemaker">>]
    ELSE LET name == get_item_name_from_cafemaker(cafemaker)
         IN IF NeedsSecondary(name)
            THEN IF xivapi.raised
                 THEN [raised |-> TRUE, name |-> None, calls |-> <<"cafemaker", "xivapi">>]
                 ELSE [raised |-> FALSE, name |-> get_item_name_from_xivapi(xivapi),
                       calls |-> <<"cafemaker", "xivapi">>]
            ELSE [raised |-> FALSE, name |-> name, calls |-> <<"cafemaker">>]

(* Inputs of the resolver specification *)

Names == SeqsUpTo(Chars, MaxLen - 1)
StatusCodes == {200, 404}
NameResponses ==
    {Raises} \cup {Answer(c, n) : c \in StatusCodes, n \in Names \cup {None}}

InitName ==
    /\ pc = "Call"
    /\ \E cafemaker \in NameResponses, xivapi \in NameResponses :
          arg = [fn |-> "get_item_name", cafemaker |-> cafemaker, xivapi |-> xivapi]
    /\ ret = NoRet
    /\ Idle

CallGetItemName ==
    /\ pc = "Call"
    /\ arg.fn = "get_item_name"
    /\ ret' = [fn |-> "get_item_name", out |-> get_item_name(arg.cafemaker, arg.xivapi)]
    /\ pc' = "Returned"
    /\ UNCHANGED <<arg, RunVars>>

NextName == CallGetItemName

SpecName == InitName /\ [][NextName]_vars

(* Claims about get_item_name *)

\* the name a source yields when it answers: the "Name" of a 200 response, else null
Yields(response) == IF response.status_code = 200 THEN response.Name ELSE None

---------------------------------------------------------------------------
(* Ranking and reporting, lines 167-173 *)

\* the place of x in a list sorted descending by key: behind every element whose
\* key is at least its own (sorted() is stable, also with reverse=True)
InsertDescUnstable(sorted, x, key) ==
    LET p == Cardinality({k \in 1..Len(sorted) : sorted[k][key] > x[key]})
    IN SubSeq(sorted, 1, p) \o <<x>> \o SubSeq(sorted, p + 1, Len(sorted))
InsertDesc(sorted, x, key) ==
    LET p == Cardinality({k \in 1..Len(sorted) : sorted[k][key] >= x[key]})
    IN SubSeq(sorted, 1, p) \o <<x>> \o SubSeq(sorted, p + 1, Len(sorted))

\* sorted(items, key=lambda x: x[key], reverse=True)
RECURSIVE SortedDescFrom(_, _, _, _)
SortedDescFrom(items, i, key, acc) ==
    IF i > Len(items) THEN acc
    ELSE LET next == InsertDesc(acc, items[i], key)
         IN IF Len(next) = i THEN SortedDescFrom(items, i + 1, key, next) ELSE <<>>
SortedDesc(items, key) == SortedDescFrom(items, 1, key, <<>>)

\* sorted(top_items, key=..., reverse=True)[:50]
TopFifty(items, key) == Take(SortedDesc(items, key), TopCarry)

\* save_top_items_to_txt: one line per item, its name and its value for the key
ReportLines(items, key) ==
    [i \in 1..Len(items) |-> [name |-> items[i].name, value |-> items[i][key]]]

\* save_top_items_to_txt(top[:20], ...)
Report(top, key) == ReportLines(Take(top, TopReport), key)

Keys == {"daily_revenue", "total_quantity"}

(* Inputs of the ranking specification: every short list of items with distinct
   ids, and lists longer than the two limits *)

Metrics == {<<5, 1>>, <<3, 2>>, <<10, 2>>}

ShortItemLists ==
    UNION {{[i \in 1..k |-> [id |-> Threshold + i, name |-> <<"a">>,
                             daily_revenue |-> m[i][1], total_quantity |-> m[i][2]]] :
              m \in [1..k -> Metrics]} : k \in 0..MaxLen}

LongItemList(n, p, q) ==
    [i \in 1..n |-> [id |-> Threshold + i, name |-> <<"a">>,
                     daily_revenue |-> (i * p) % 7, total_quantity |-> (i * q) % 5]]

LongItemLists ==
    {LongItemList(n, p, q) :
        n \in {TopReport + 1, TopCarry, TopCarry + 1, TopCarry + MaxLen}, p \in 1..3, q \in 1..2}

InitRank ==
    /\ pc = "Call"
    /\ \E items \in ShortItemLists \cup LongItemLists, key \in Keys :
          arg = [fn |-> "rank", items |-> items, key |-> key]
    /\ ret = NoRet
    /\ Idle

\* lines 167-169 (key daily_revenue) or 171-173 (key total_quantity)
CallRank ==
    /\ pc = "Call"
    /\ arg.fn = "rank"
    /\ LET top == TopFifty(arg.items, arg.key)
       IN ret' = [fn |-> "rank", carry |-> top, report |-> Report(top, arg.key)]
    /\ pc' = "Returned"
    /\ UNCHANGED <<arg, RunVars>>

NextRank == CallRank

SpecRank == InitRank /\ [][NextRank]_vars

(* Claims about ranking *)

\* the position of the item with this id in a list of items with distinct ids
PosOf(items, id) == CHOOSE i \in 1..Len(items) : items[i].id = id

\* x comes before y in the descending, input-order-stable ranking of items
Before(items, key, x, y) ==
    \/ x[key] > y[key]
    \/ x[key] = y[key] /\ PosOf(items, x.id) < PosOf(items, y.id)

\* out is the first `limit` items of the descending stable ranking of items
IsRanking(out, items, key, limit) ==
    /\ Len(out) = Min(limit, Len(items))
    /\ \A k \in 1..Len(out) : out[k] \in Range(items)
    /\ \A k \in 1..(Len(out) - 1) : Before(items, key, out[k], out[k + 1])
    /\ \A x \in Range(items) \ Range(out) : Before(items, key, out[Len(out)], x)

\* C8: rank returns the items sorted descending by the metric, items of equal
\* metric in their original relative order, truncated to the limit; the top-20
\* report is the prefix of the top-50 carry-forward list.
C8_StableRanking ==
    Returned("rank")
    => /\ IsRanking(ret.carry, arg.items, arg.key, TopCarry)
       /\ Len(ret.report) = Min(TopReport, Len(ret.carry))
       /\ \A k \in 1..Len(ret.report) :
             /\ ret.report[k].name = ret.carry[k].name
             /\ ret.report[k].value = ret.carry[k][arg.key]
       /\ IsRanking(Take(ret.carry, TopReport), arg.items, arg.key, TopReport)

\* a list longer than 50 with ties inside the carry list: both truncations act
C8_Witness ==
    /\ Returned("rank")
    /\ Len(arg.items) > TopCarry
    /\ Len(ret.carry) = TopCarry
    /\ Len(ret.report) = TopReport
    /\ \E k \in 1..(TopReport - 1) : ret.carry[k][arg.key] = ret.carry[k + 1][arg.key]

---------------------------------------------------------------------------
(* The run of the script: DetermineItemSet, lines 150-163 *)

NoRequest == [requested |-> FALSE, raised |-> FALSE, status_code |-> 0, body |-> <<>>]
CatalogRaises == [requested |-> TRUE, raised |-> TRUE, status_code |-> 0, body |-> <<>>]
CatalogAnswer(code, body) ==
    [requested |-> TRUE, raised |-> FALSE, status_code |-> code, body |-> body]

\* [item_id for item_id in all_item_ids if item_id > 34000]
FilteredItemIds(all_item_ids) == SelectSeq(all_item_ids, LAMBDA item_id : item_id > Threshold)

\* get_all_marketable_item_ids on a response: a list, or None
get_all_marketable_item_ids(response) ==
    IF response.status_code = 200
    THEN [none |-> FALSE, ids |-> FilteredItemIds(response.body)]
    ELSE [none |-> TRUE, ids |-> <<>>]

\* `if item_ids:` - neither None nor the empty list
Truthy(l) == ~l.none /\ l.ids # <<>>

\* is_Sat() or not Path(item_ids_file).exists()
FetchRequired == isSat \/ ~item_ids_file.exists

\* line 160: not is_Sat() and both carry-forward files exist
NarrowingApplies ==
    ~isSat /\ previous_day_file_revenue.exists /\ previous_day_file_quantity.exists

Ids(items) == [i \in 1..Len(items) |-> items[i].id]

\* [item['id'] for item in revenue] + [item['id'] for item in quantity]
PreviousIdsRevenueOnly(revenue, quantity) == Ids(revenue)
PreviousIds(revenue, quantity) == Ids(revenue) \o Ids(quantity)

RECURSIVE Ascending(_)
Ascending(S) ==
    IF S = {} THEN <<>>
    ELSE LET m == CHOOSE x \in S : \A y \in S : x <= y IN <<m>> \o Ascending(S \ {m})
Reverse(s) == [i \in 1..Len(s) |-> s[Len(s) + 1 - i]]

\* list(set(l)): the elements of l, each once, in the order the set iterates,
\* which the language leaves open: any order for a small set, and for a larger
\* one the ascending and the descending order
ListsOfSet(l) ==
    LET S == Range(l)
    IN IF Cardinality(S) <= MaxLen
       THEN {p \in [1..Cardinality(S) -> S] : Range(p) = S}
       ELSE {Ascending(S), Reverse(Ascending(S))}

\* a future of executor.map: where its work item stands, how its market fetch
\* ended, what fetch_item returned (an item, None) or raised
QueuedTask ==
    [st |-> "queued", market |-> "", outcome |-> "", name |-> None,
     daily_revenue |-> 0, total_quantity |-> 0]

\* lines 160-165 without the narrowing
StartEnrichWholeList(ids) ==
    /\ item_ids' = ids
    /\ tasks' = [i \in 1..Len(item_ids') |-> QueuedTask]
    /\ pc' = "Enrich"

\* lines 160-165: the narrowing, then get_top_items submits one task per id
StartEnrich(ids) ==
    /\ IF NarrowingApplies
       THEN item_ids' \in ListsOfSet(PreviousIds(previous_day_file_revenue.content,
                                                 previous_day_file_quantity.content))
       ELSE item_ids' = ids
    /\ tasks' = [i \in 1..Len(item_ids') |-> QueuedTask]
    /\ pc' = "Enrich"

\* the catalogs the /marketable request may list
CatalogIds == {Threshold, Threshold + 1, Threshold + 2}
Catalogs == {Ascending(S) : S \in SUBSET CatalogIds}

\* lines 151-153: the catalog is fetched and is not empty once filtered
CatalogFetched ==
    /\ pc = "DetermineItemSet"
    /\ FetchRequired
    /\ \E body \in Catalogs :
         LET response == CatalogAnswer(200, body)
             ids == get_all_marketable_item_ids(response)
         IN /\ Truthy(ids)
            /\ catalog' = response
            /\ item_ids_file' = File(ids.ids)
            /\ StartEnrich(ids.ids)
    /\ UNCHANGED <<isSat, previous_day_file_revenue, previous_day_file_quantity,
                   results_file_revenue, results_file_quantity, top_items, run, arg, ret>>

\* the failure branch without its exit(1): the script goes on with the cached list
CatalogFailedGoesOn ==
    /\ pc = "DetermineItemSet"
    /\ FetchRequired
    /\ catalog' = CatalogAnswer(404, <<>>)
    /\ StartEnrich(item_ids_file.content)
    /\ UNCHANGED <<isSat, files, top_items, run, arg, ret>>

\* lines 151-156: the request is answered, but with a non-200 status or with no
\* id above the threshold: exit(1)
CatalogFailed ==
    /\ pc = "DetermineItemSet"
    /\ FetchRequired
    /\ \E response \in {CatalogAnswer(404, <<>>)} \cup {CatalogAnswer(200, b) : b \in Catalogs} :
         /\ ~Truthy(get_all_marketable_item_ids(response))
         /\ catalog' = response
    /\ pc' = "Exit1"
    /\ UNCHANGED <<isSat, files, item_ids, tasks, top_items, run, arg, ret>>

\* line 130: requests.get raises, nothing catches it
CatalogRaised ==
    /\ pc = "DetermineItemSet"
    /\ FetchRequired
    /\ catalog' = CatalogRaises
    /\ pc' = "Crashed"
    /\ UNCHANGED <<isSat, files, item_ids, tasks, top_items, run, arg, ret>>

\* line 158 with the list handed to enrichment saved back to the cache file
CacheLoadedSavesWorkingList ==
    /\ pc = "DetermineItemSet"
    /\ ~FetchRequired
    /\ StartEnrich(item_ids_file.content)
    /\ item_ids_file' = File(item_ids')
    /\ UNCHANGED <<isSat, catalog, previous_day_file_revenue, previous_day_file_quantity,
                   results_file_revenue, results_file_quantity, top_items, run, arg, ret>>

\* line 158: the cached list is loaded
CacheLoaded ==
    /\ pc = "DetermineItemSet"
    /\ ~FetchRequired
    /\ StartEnrich(item_ids_file.content)
    /\ UNCHANGED <<isSat, catalog, files, top_items, run, arg, ret>>

\* the exit status of the process
ExitCode == IF pc \in {"Exit1", "Crashed"} THEN 1 ELSE 0

---------------------------------------------------------------------------
(* The enrichment pipeline: get_top_items and fetch_item, lines 64-84 *)

Running == {"get_market_data", "get_item_name"}

\* the tasks a worker thread is executing
InFlight(ts) == {i \in 1..Len(ts) : ts[i].st \in Running}

\* a thread of the pool is free to take the next work item
HasIdleWorkerUnbounded(ts) == TRUE
HasIdleWorker(ts) == Cardinality(InFlight(ts)) < max_workers

\* what the services answer during a run
RunHistories(now) ==
    {<<[timestamp |-> now - 2, pricePerUnit |-> 3, quantity |-> 1, onMannequin |-> FALSE]>>,
     <<[timestamp |-> now - 2, pricePerUnit |-> 1, quantity |-> 2, onMannequin |-> FALSE],
       [timestamp |-> now - 2, pricePerUnit |-> 3, quantity |-> 1, onMannequin |-> TRUE]>>}
CafemakerResponses == {Raises, Answer(404, None), Answer(200, <<>>), Answer(200, <<"a">>)}
XivapiResponses == {Raises, Answer(404, None), Answer(200, <<>>), Answer(200, <<"b">>)}

\* a worker takes the next work item of the queue (work items are queued in the
\* order of item_ids) and calls fetch_item, which calls get_market_data
StartTask(i) ==
    /\ pc = "Enrich"
    /\ i \in 1..Len(tasks)
    /\ tasks[i].st = "queued"
    /\ \A j \in 1..(i - 1) : tasks[j].st # "queued"
    /\ HasIdleWorker(tasks)
    /\ tasks' = [tasks EXCEPT ![i].st = "get_market_data"]
    /\ UNCHANGED <<pc, isSat, catalog, files, item_ids, top_items, run, arg, ret>>

\* lines 14-32, 66-67: a 200 response; fetch_item goes on to get_item_name
MarketFetchOk(i) ==
    /\ pc \in {"Enrich", "Unwinding"}
    /\ i \in 1..Len(tasks)
    /\ tasks[i].st = "get_market_data"
    /\ \E now \in Nows, tz \in TZOffsets :
         \E entries \in RunHistories(now) :
            LET item_data == MarketData(entries, now, tz)
            IN tasks' = [tasks EXCEPT ![i] =
                           [@ EXCEPT !.st = "get_item_name", !.market = "ok",
                                     !.daily_revenue = item_data.daily_revenue,
                                     !.total_quantity = item_data.total_quantity]]
    /\ UNCHANGED <<pc, isSat, catalog, files, item_ids, top_items, run, arg, ret>>

\* lines 33-34 with a fetch_item that looks the name up whatever get_market_data
\* returned
MarketFetchNon200ThenName(i) ==
    /\ pc \in {"Enrich", "Unwinding"}
    /\ i \in 1..Len(tasks)
    /\ tasks[i].st = "get_market_data"
    /\ tasks' = [tasks EXCEPT ![i] =
                   [@ EXCEPT !.st = "get_item_name", !.market = "non200"]]
    /\ UNCHANGED <<pc, isSat, catalog, files, item_ids, top_items, run, arg, ret>>

\* lines 33-34, 75-76: another status; get_market_data and fetch_item return None
MarketFetchNon200(i) ==
    /\ pc \in {"Enrich", "Unwinding"}
    /\ i \in 1..Len(tasks)
    /\ tasks[i].st = "get_market_data"
    /\ tasks' = [tasks EXCEPT ![i] =
                   [@ EXCEPT !.st = "finished", !.market = "non200", !.outcome = "None"]]
    /\ UNCHANGED <<pc, isSat, catalog, files, item_ids, top_items, run, arg, ret>>

\* line 13: requests.get raises; neither get_market_data nor fetch_item catches
\* it, so the future holds the exception
MarketFetchRaises(i) ==
    /\ pc \in {"Enrich", "Unwinding"}
    /\ i \in 1..Len(tasks)
    /\ tasks[i].st = "get_market_data"
    /\ tasks' = [tasks EXCEPT ![i] =
                   [@ EXCEPT !.st = "finished", !.market = "error", !.outcome = "exception"]]
    /\ UNCHANGED <<pc, isSat, catalog, files, item_ids, top_items, run, arg, ret>>

\* lines 67-74: get_item_name returns (the item is built) or raises
NameResolved(i) ==
    /\ pc \in {"Enrich", "Unwinding"}
    /\ i \in 1..Len(tasks)
    /\ tasks[i].st = "get_item_name"
    /\ \E cafemaker \in CafemakerResponses, xivapi \in XivapiResponses :
         LET item_name == get_item_name(cafemaker, xivapi)
         IN tasks' = [tasks EXCEPT ![i] =
                        IF item_name.raised
                        THEN [@ EXCEPT !.st = "finished", !.outcome = "exception"]
                        ELSE [@ EXCEPT !.st = "finished", !.outcome = "item",
                                       !.name = item_name.name]]
    /\ UNCHANGED <<pc, isSat, catalog, files, item_ids, top_items, run, arg, ret>>

\* the dict fetch_item returned for task i
ItemOf(ids, ts, i) ==
    [id |-> ids[i], name |-> ts[i].name,
     daily_revenue |-> ts[i].daily_revenue, total_quantity |-> ts[i].total_quantity]

\* [item for item in items if item is not None], items in the order of item_ids
RECURSIVE NotNoneFrom(_, _, _)
NotNoneFrom(ids, ts, i) ==
    IF i > Len(ts) THEN <<>>
    ELSE (IF ts[i].outcome = "item" THEN <<ItemOf(ids, ts, i)>> ELSE <<>>)
         \o NotNoneFrom(ids, ts, i + 1)
\* the successful items in the reverse of the input order
NotNoneReversed(ids, ts) == Reverse(NotNoneFrom(ids, ts, 1))
NotNone(ids, ts) == NotNoneFrom(ids, ts, 1)

\* lines 81-84: list(executor.map(...)) has read every result; none raised
GetTopItemsReturns ==
    /\ pc = "Enrich"
    /\ \A i \in 1..Len(tasks) : tasks[i].st = "finished" /\ tasks[i].outcome # "exception"
    /\ top_items' = NotNone(item_ids, tasks)
    /\ pc' = "RankAndReport"
    /\ UNCHANGED <<isSat, catalog, files, item_ids, tasks, run, arg, ret>>

\* line 81: the iterator of executor.map reaches, in the order of item_ids, a
\* future that holds an exception and re-raises it; the futures still queued
\* are cancelled
GetTopItemsRaises ==
    /\ pc = "Enrich"
    /\ \E k \in 1..Len(tasks) :
         /\ tasks[k].st = "finished" /\ tasks[k].outcome = "exception"
         /\ \A j \in 1..(k - 1) : tasks[j].st = "finished" /\ tasks[j].outcome # "exception"
    /\ tasks' = [i \in 1..Len(tasks) |->
                   IF tasks[i].st = "queued" THEN [tasks[i] EXCEPT !.st = "cancelled"]
                   ELSE tasks[i]]
    /\ pc' = "Unwinding"
    /\ UNCHANGED <<isSat, catalog, files, item_ids, top_items, run, arg, ret>>

\* line 79: leaving the with block waits for the running tasks; then the
\* exception leaves get_top_items and ends the script
Crash ==
    /\ pc = "Unwinding"
    /\ InFlight(tasks) = {}
    /\ pc' = "Crashed"
    /\ UNCHANGED <<isSat, catalog, files, item_ids, tasks, top_items, run, arg, ret>>

\* lines 167-173 with the revenue list saved to both carry-forward files
RankAndReportRevenueTwice ==
    /\ pc = "RankAndReport"
    /\ LET top_items_revenue == TopFifty(top_items, "daily_revenue")
           top_items_quantity == TopFifty(top_items, "total_quantity")
       IN /\ results_file_revenue' = File(Report(top_items_revenue, "daily_revenue"))
          /\ previous_day_file_revenue' = File(top_items_revenue)
          /\ results_file_quantity' = File(Report(top_items_quantity, "total_quantity"))
          /\ previous_day_file_quantity' = File(top_items_revenue)
    /\ pc' = "Done"
    /\ UNCHANGED <<isSat, catalog, item_ids_file, item_ids, tasks, top_items, run, arg, ret>>

\* lines 167-173
RankAndReport ==
    /\ pc = "RankAndReport"
    /\ LET top_items_revenue == TopFifty(top_items, "daily_revenue")
           top_items_quantity == TopFifty(top_items, "total_quantity")
       IN /\ results_file_revenue' = File(Report(top_items_revenue, "daily_revenue"))
          /\ previous_day_file_revenue' = File(top_items_revenue)
          /\ results_file_quantity' = File(Report(top_items_quantity, "total_quantity"))
          /\ previous_day_file_quantity' = File(top_items_quantity)
    /\ pc' = "Done"
    /\ UNCHANGED <<isSat, catalog, item_ids_file, item_ids, tasks, top_items, run, arg, ret>>

\* the script is run again, on the files the runs before it left
NextRun ==
    /\ pc \in {"Done", "Exit1", "Crashed"}
    /\ run < MaxRuns
    /\ run' = run + 1
    /\ isSat' \in BOOLEAN
    /\ catalog' = NoRequest
    /\ item_ids' = <<>>
    /\ tasks' = <<>>
    /\ top_items' = <<>>
    /\ pc' = "DetermineItemSet"
    /\ UNCHANGED <<files, arg, ret>>

\* the first run, in a directory without any of the files
Init ==
    /\ pc = "DetermineItemSet"
    /\ isSat \in BOOLEAN
    /\ catalog = NoRequest
    /\ item_ids_file = NoFile
    /\ previous_day_file_revenue = NoFile
    /\ previous_day_file_quantity = NoFile
    /\ results_file_revenue = NoFile
    /\ results_file_quantity = NoFile
    /\ item_ids = <<>>
    /\ tasks = <<>>
    /\ top_items = <<>>
    /\ run = 1
    /\ arg = NoArg
    /\ ret = NoRet

Next ==
    \/ CatalogFetched
    \/ CatalogFailed
    \/ CatalogRaised
    \/ CacheLoaded
    \/ \E i \in 1..Len(tasks) : StartTask(i)
    \/ \E i \in 1..Len(tasks) : MarketFetchOk(i)
    \/ \E i \in 1..Len(tasks) : MarketFetchNon200(i)
    \/ \E i \in 1..Len(tasks) : MarketFetchRaises(i)
    \/ \E i \in 1..Len(tasks) : NameResolved(i)
    \/ GetTopItemsReturns
    \/ GetTopItemsRaises
    \/ Crash
    \/ RankAndReport
    \/ NextRun

Spec == Init /\ [][Next]_vars

---------------------------------------------------------------------------
(* The pool under load: more ids than workers, every market fetch answered
   with a non-200 status (the instrumented stub of the pipeline test) *)

PoolIds == [i \in 1..(max_workers + PoolExtra) |-> Threshold + i]

\* the first run has fetched a catalog of these ids and submitted the tasks
InitPool ==
    /\ pc = "Enrich"
    /\ isSat = FALSE
    /\ catalog = CatalogAnswer(200, PoolIds)
    /\ item_ids_file = File(PoolIds)
    /\ previous_day_file_revenue = NoFile
    /\ previous_day_file_quantity = NoFile
    /\ results_file_revenue = NoFile
    /\ results_file_quantity = NoFile
    /\ item_ids = PoolIds
    /\ tasks = [i \in 1..Len(PoolIds) |-> QueuedTask]
    /\ top_items = <<>>
    /\ run = 1
    /\ arg = NoArg
    /\ ret = NoRet

NextPool ==
    \/ \E i \in 1..Len(tasks) : StartTask(i)
    \/ \E i \in 1..Len(tasks) : MarketFetchNon200(i)
    \/ GetTopItemsReturns
    \/ RankAndReport

SpecPool == InitPool /\ [][NextPool]_vars

---------------------------------------------------------------------------
(* DetermineItemSet on the files an earlier run left: its top_items were one
   of these lists, short or longer than the carry-forward limit *)

PriorTopItems == ShortItemLists \cup LongItemLists

InitNarrow ==
    /\ pc = "DetermineItemSet"
    /\ isSat \in BOOLEAN
    /\ catalog = NoRequest
    /\ \E prior \in PriorTopItems :
         LET revenue == TopFifty(prior, "daily_revenue")
             quantity == TopFifty(prior, "total_quantity")
         IN /\ item_ids_file \in {NoFile, File(Ascending(Range(Ids(prior)) \cup {Threshold + 1}))}
            /\ previous_day_file_revenue = File(revenue)
            /\ previous_day_file_quantity = File(quantity)
            /\ results_file_revenue = File(Report(revenue, "daily_revenue"))
            /\ results_file_quantity = File(Report(quantity, "total_quantity"))
    /\ item_ids = <<>>
    /\ tasks = <<>>
    /\ top_items = <<>>
    /\ run = 1
    /\ arg = NoArg
    /\ ret = NoRet

NextNarrow ==
    \/ CatalogFetched
    \/ CatalogFailed
    \/ CatalogRaised
    \/ CacheLoaded

SpecNarrow == InitNarrow /\ [][NextNarrow]_vars

---------------------------------------------------------------------------
(* Claims about the pipeline *)

\* C1: get_top_items returns exactly one item for each id whose market fetch
\* succeeded and none for each id whose fetch failed (non-success response or
\* transport error), and no error reaches the caller beyond the omission.
C1_FailedFetchesOmitted ==
    /\ \A i \in 1..Len(tasks) :
          tasks[i].market \in {"non200", "error"} => tasks[i].outcome = "None"
    /\ pc # "Unwinding"
    /\ pc \in {"RankAndReport", "Done"}
         => /\ Len(top_items) = Cardinality({i \in 1..Len(tasks) : tasks[i].market = "ok"})
            /\ \A i \in 1..Len(tasks) :
                  (tasks[i].market = "ok") <=> (\E k \in 1..Len(top_items) : top_items[k].id = item_ids[i])

\* C2: for an item whose market fetch succeeded, a failure of name resolution
\* (either source failing by connection failure or non-success response, or
\* answering empty) is not fatal: the item is still built, with a null name,
\* and the pipeline is not aborted.
C2_NameFailureNotFatal ==
    \A i \in 1..Len(tasks) :
        (tasks[i].market = "ok" /\ tasks[i].st = "finished")
        => /\ tasks[i].outcome = "item"
           /\ pc \notin {"Unwinding", "Crashed"}

\* C3: in every reachable state, under every interleaving of the workers, at
\* most 15 fetch+resolve tasks are in flight, however many ids there are.
C3_AtMostFifteenInFlight == Cardinality(InFlight(tasks)) <= max_workers

\* all 15 workers are busy while an id is still waiting in the queue
C3_Witness ==
    /\ Cardinality(InFlight(tasks)) = max_workers
    /\ \E i \in 1..Len(tasks) : tasks[i].st = "queued"
    /\ Len(item_ids) > max_workers

(* Claims about DetermineItemSet *)

\* the catalog request of this run failed: it raised or was not answered 200
CatalogFetchFailed(c) == c.requested /\ (c.raised \/ c.status_code # 200)

\* C5: whenever the catalog fetch is required (refresh day or no cached list)
\* and fails, the run aborts with a non-zero exit status before any enrichment:
\* no market fetch or name lookup is issued and no cache, carry-forward or
\* report file is written.
C5_FailedCatalogAborts ==
    /\ [][(pc = "DetermineItemSet" /\ FetchRequired /\ CatalogFetchFailed(catalog'))
            => /\ pc' \in {"Exit1", "Crashed"}
               /\ ExitCode' # 0
               /\ tasks' = <<>>
               /\ files' = files]_vars
    /\ [][(CatalogFetchFailed(catalog) /\ run' = run)
            => (UNCHANGED <<tasks, files, item_ids, top_items>> /\ tasks = <<>>)]_vars

\* a refresh-day run that finds the cache and the lists of an earlier run and
\* whose catalog request is answered with a non-200 status
C5_Witness ==
    /\ pc = "Exit1"
    /\ isSat
    /\ catalog.status_code = 404
    /\ item_ids_file.exists
    /\ previous_day_file_revenue.exists
    /\ tasks = <<>>

IdSet(file) == {file.content[i].id : i \in 1..Len(file.content)}

\* C6: on a non-refresh day with carry-forward state present, the ids handed
\* to enrichment are the union of the ids of the previous top-50-by-revenue and
\* top-50-by-quantity lists, each id once.
C6_NarrowedToUnion ==
    (pc = "Enrich" /\ ~isSat
       /\ previous_day_file_revenue.exists /\ previous_day_file_quantity.exists)
    => /\ Range(item_ids) = IdSet(previous_day_file_revenue) \cup IdSet(previous_day_file_quantity)
       /\ Len(item_ids) = Cardinality(Range(item_ids))
       /\ Len(tasks) = Len(item_ids)

\* the two lists hold different ids: each has an id the other lacks
C6_Witness ==
    /\ pc = "Enrich" /\ ~isSat
    /\ previous_day_file_revenue.exists /\ previous_day_file_quantity.exists
    /\ IdSet(previous_day_file_revenue) \ IdSet(previous_day_file_quantity) # {}
    /\ IdSet(previous_day_file_quantity) \ IdSet(previous_day_file_revenue) # {}
    /\ Len(item_ids) > TopCarry

\* C7: the catalog is fetched exactly when it is the refresh day or no cached
\* list exists, otherwise the cached list is loaded; on a successful fetch the
\* catalog filtered to ids above 34000 is persisted as the new cache, and on the
\* refresh day the set handed to enrichment is exactly that filtered catalog,
\* whatever the carry-forward state.
C7_DetermineItemSet ==
    [][(pc = "DetermineItemSet" /\ pc' # pc)
         => LET fetched == catalog'.requested /\ ~catalog'.raised /\ catalog'.status_code = 200
                filtered == FilteredItemIds(catalog'.body)
            IN /\ catalog'.requested <=> (isSat \/ ~item_ids_file.exists)
               /\ ~catalog'.requested
                    => (item_ids_file' = item_ids_file
                        /\ (~NarrowingApplies => item_ids' = item_ids_file.content))
               /\ fetched => item_ids_file' = File(filtered)
               /\ (fetched /\ isSat) => (pc' = "Enrich" /\ item_ids' = filtered)]_vars


\* C12: at the end of every run both carry-forward files hold that run's own
\* top-50 lists, so the carry-forward state the next run starts from is always
\* the result of the run immediately before it.
C12_CarryForwardOfPrecedingRun ==
    [][run' # run
         => /\ previous_day_file_revenue' = File(TopFifty(top_items, "daily_revenue"))
            /\ previous_day_file_quantity' = File(TopFifty(top_items, "total_quantity"))]_vars

\* C12 as the code has it: a run that reaches RankAndReport ends with both
\* carry-forward files holding its own top-50 lists, and no other step of any
\* run touches them; the next run starts from the lists of the latest run that
\* got that far.
C12_CarryForwardOfLastRanking ==
    [][/\ (run' # run /\ pc = "Done")
            => /\ previous_day_file_revenue' = File(TopFifty(top_items, "daily_revenue"))
               /\ previous_day_file_quantity' = File(TopFifty(top_items, "total_quantity"))
       /\ pc # "RankAndReport"
            => UNCHANGED <<previous_day_file_revenue, previous_day_file_quantity>>]_vars

\* a second run starts from two differently ordered lists left by the first
C12_Witness ==
    /\ run = 2
    /\ pc = "DetermineItemSet"
    /\ previous_day_file_revenue.exists
    /\ previous_day_file_quantity.exists
    /\ Len(previous_day_file_revenue.content) = 2
    /\ previous_day_file_revenue.content # previous_day_file_quantity.content

\* C13: a run that has stopped either reached Done through Enrich and
\* RankAndReport with every id of the determined item set processed exactly
\* once, or was aborted by the failed catalog fetch before any enrichment; no
\* run stops after enrichment has started with scheduled work left undone,
\* whatever the per-item failures.
C13_RunCompletesOrAbortsEarly ==
    /\ pc \in {"RankAndReport", "Done"}
         => /\ Len(tasks) = Len(item_ids)
            /\ \A i \in 1..Len(tasks) : tasks[i].st = "finished"
    /\ pc \in {"Exit1", "Unwinding", "Crashed"}
         => /\ tasks = <<>>
            /\ catalog.requested

\* C14: within one item the name is looked up only after that item's market
\* fetch has returned successfully: no task is in get_item_name, and none has a
\* name or an item, unless its market fetch succeeded; nothing orders the
\* tasks of different items.
C14_NameAfterSuccessfulFetch ==
    \A i \in 1..Len(tasks) :
        /\ tasks[i].st = "get_item_name" => tasks[i].market = "ok"
        /\ tasks[i].market # "ok"
             => (tasks[i].name = None /\ tasks[i].outcome # "item")

\* the name of the second item is being looked up, its fetch having succeeded,
\* after the fetch of the first failed
C14_Witness ==
    /\ Len(tasks) = 2
    /\ tasks[1].market = "non200"
    /\ tasks[2].st = "get_item_name"
    /\ tasks[2].market = "ok"

\* C15: the item-id cache file is written only by a successful fetch of the
\* full catalog (and then holds the filtered catalog); a run that is not on the
\* refresh day and finds the cache leaves it as it is; the narrowing to the
\* carry-forward ids changes the working list only, never the cache.
C15_CacheWrittenOnlyByRefresh ==
    [][/\ item_ids_file' # item_ids_file
            => /\ pc = "DetermineItemSet" /\ FetchRequired
               /\ catalog'.requested /\ ~catalog'.raised /\ catalog'.status_code = 200
               /\ item_ids_file' = File(FilteredItemIds(catalog'.body))
       /\ (~isSat /\ item_ids_file.exists) => item_ids_file' = item_ids_file
       /\ (pc = "DetermineItemSet" /\ pc' = "Enrich" /\ NarrowingApplies)
            => item_ids_file'.content = IF FetchRequired
                                        THEN FilteredItemIds(catalog'.body)
                                        ELSE item_ids_file.content]_vars

\* a run off the refresh day works on a narrowed list shorter than the cached
\* catalog, which it loaded without a request
C15_Witness ==
    /\ pc = "Enrich"
    /\ ~isSat
    /\ ~catalog.requested
    /\ item_ids_file.exists
    /\ previous_day_file_revenue.exists /\ previous_day_file_quantity.exists
    /\ Len(item_ids) < Len(item_ids_file.content)
    /\ Len(item_ids) > 0

\* the tasks for which fetch_item returned an item
SuccessIdx(ts) == {i \in 1..Len(ts) : ts[i].outcome = "item"}

\* C16: whatever the interleaving and the order in which the tasks complete,
\* get_top_items returns the successful items in the order of the input list:
\* the k-th item of the result is the item of the k-th successful id, so the
\* list handed to the stable ranking is fixed by the input list and the
\* outcomes of the fetches.
C16_InputOrderPreserved ==
    pc \in {"RankAndReport", "Done"}
    => /\ Len(top_items) = Cardinality(SuccessIdx(tasks))
       /\ \A i \in SuccessIdx(tasks) :
             top_items[Cardinality({j \in SuccessIdx(tasks) : j <= i})]
               = ItemOf(item_ids, tasks, i)

\* two successful items of an input list that is not in ascending order
C16_Witness ==
    /\ pc = "RankAndReport"
    /\ Len(item_ids) = 2
    /\ item_ids[1] > item_ids[2]
    /\ Len(top_items) = 2
    /\ top_items[1].id = item_ids[1]
    /\ top_items[1].daily_revenue # top_items[2].daily_revenue

\* C17: in a run off the refresh day that found both carry-forward files, the
\* ids of the two lists it writes at its end are among the ids of the two lists
\* it read at its start: the tracked set does not grow from one such run to
\* the next.
C17_TrackedSetNeverGrows ==
    [][(pc = "RankAndReport" /\ pc' = "Done" /\ NarrowingApplies)
         => (IdSet(previous_day_file_revenue') \cup IdSet(previous_day_file_quantity'))
              \subseteq (IdSet(previous_day_file_revenue) \cup IdSet(previous_day_file_quantity))]_vars

\* a second run, off the refresh day, narrowed to one id of a cached catalog of
\* two, has ended and written lists that hold that id
C17_Witness ==
    /\ run = 2
    /\ pc = "Done"
    /\ ~isSat
    /\ Len(item_ids_file.content) = 2
    /\ Len(item_ids) = 1
    /\ IdSet(previous_day_file_revenue) = Range(item_ids)
    /\ IdSet(previous_day_file_quantity) = Range(item_ids)

===========================================================================
